---- MODULE Spec2Model ----
(***************************************************************************)
(* Market Basket Analysis dashboard (src/dashboard3.py, src/dashboardd.py). *)
(* The script is a Streamlit page: every change of a widget reruns it from  *)
(* the top.  One run reads the uploaded transactions, one-hot encodes them, *)
(* mines the frequent itemsets (apriori), derives the association rules,    *)
(* filters them by lift and folds them into a directed graph                *)
(* (draw_network).  The two source files hold the same pipeline; the line   *)
(* numbers in the comments are those of src/dashboard3.py.                  *)
(*                                                                         *)
(* Numbers are exact rationals <<n, d>> in lowest terms with d > 0; the     *)
(* binary rounding of Python floats is not modelled.                        *)
(***************************************************************************)
EXTENDS Integers, Sequences, FiniteSets

VARIABLES
    pc,                 \* position of the script run
    hash_order,         \* iteration order of frozensets of products in this process
    uploaded_file,      \* rows of the uploaded CSV, grouped by order_id; <<>> = none
    basket_sets,        \* one-hot matrix: one row per order, one 0/1 column per product
    min_support,        \* sidebar slider "Minimum Support"
    min_confidence,     \* sidebar slider "Minimum Confidence"
    min_lift,           \* sidebar slider "Minimum Lift"
    metric_choice,      \* sidebar selectbox "Choose metric for edge weight:"
    frequent_itemsets,  \* table returned by apriori, rows in order
    rules,              \* table of association rules, rows in order
    min_val,            \* value read from the "Minimum <metric> to display:" slider
    G                   \* draw_network: the nx.DiGraph

vars == <<pc, hash_order, uploaded_file, basket_sets, min_support, min_confidence,
          min_lift, metric_choice, frequent_itemsets, rules, min_val, G>>

(***************************************************************************)
(* Bounds of the model.                                                     *)
(***************************************************************************)
MaxOrders == 3

\* The products of the uploaded files, in the column order of the one-hot
\* matrix (unstack sorts the column labels).
Columns == <<"bread", "eggs", "milk">>

Items == {Columns[i] : i \in 1..Len(Columns)}

Col(p) == CHOOSE i \in 1..Len(Columns) : Columns[i] = p

(***************************************************************************)
(* Exact rationals.                                                         *)
(***************************************************************************)
RECURSIVE GCD(_, _)
GCD(a, b) == IF b = 0 THEN a ELSE GCD(b, a % b)

Rat(n, d) == LET g == GCD(n, d) IN <<n \div g, d \div g>>

RLeq(x, y) == x[1] * y[2] <= y[1] * x[2]

RLess(x, y) == x[1] * y[2] < y[1] * x[2]

RDiv(x, y) == Rat(x[1] * y[2], x[2] * y[1])

RAdd(x, y) == Rat(x[1] * y[2] + y[1] * x[2], x[2] * y[2])

RSub(x, y) == Rat(x[1] * y[2] - y[1] * x[2], x[2] * y[2])

\* Smallest integer >= x, for x >= 0.
RCeil(x) == (x[1] + x[2] - 1) \div x[2]

Zero == <<0, 1>>

(***************************************************************************)
(* Sequences.                                                               *)
(***************************************************************************)
RECURSIVE Flatten(_)
Flatten(ss) == IF ss = <<>> THEN <<>> ELSE Head(ss) \o Flatten(Tail(ss))

\* The members of S as a sequence, in increasing position (rank is injective on S).
RECURSIVE SortBy(_, _)
SortBy(S, rank) ==
    IF S = {} THEN <<>>
    ELSE LET m == CHOOSE x \in S : \A y \in S : rank[x] <= rank[y]
         IN  <<m>> \o SortBy(S \ {m}, rank)

Range(s) == {s[i] : i \in 1..Len(s)}

Map(s, Op(_)) == [i \in 1..Len(s) |-> Op(s[i])]

\* itertools.combinations(s, r): the r-element subsequences of s, in lexicographic
\* order of their positions.
RECURSIVE Combinations(_, _)
Combinations(s, r) ==
    IF r = 0 THEN << <<>> >>
    ELSE IF Len(s) < r THEN <<>>
    ELSE Map(Combinations(Tail(s), r - 1), LAMBDA c : <<Head(s)>> \o c)
         \o Combinations(Tail(s), r)

(***************************************************************************)
(* Uploaded files.  A file is given by its orders, each the non-empty set   *)
(* of products on its rows, in the order groupby lists the order_ids.       *)
(* Which order_id carries which basket changes nothing below (columns are   *)
(* summed over the rows), so the files listed have their orders sorted.     *)
(***************************************************************************)
RECURSIVE SetCode(_)
SetCode(S) ==
    IF S = {} THEN 0
    ELSE LET p == CHOOSE x \in S : TRUE
         IN  2 ^ (Col(p) - 1) + SetCode(S \ {p})

Files ==
    UNION {{f \in [1..n -> (SUBSET Items) \ {{}}] :
               \A i \in 1..(n - 1) : SetCode(f[i]) <= SetCode(f[i + 1])} :
           n \in 1..MaxOrders}

NoFile == <<>>

\* Iteration orders of a frozenset of product names: fixed by the string hashes
\* of the process.  hash_order[p] is the position of p.
HashOrders ==
    {h \in [Items -> 1..Cardinality(Items)] : \A p, q \in Items : h[p] = h[q] => p = q}

ColRank == [p \in Items |-> Col(p)]

(***************************************************************************)
(* Widgets: the values they offer and their defaults.  Thresholds are       *)
(* rationals; the sliders move in the steps given in the source.            *)
(***************************************************************************)
DefaultMinSupport == Rat(2, 100)

DefaultMinConfidence == Rat(20, 100)

DefaultMinLift == Rat(10, 10)

MinSupportChoices == {DefaultMinSupport, Rat(50, 100)}

MinConfidenceChoices == {DefaultMinConfidence, Rat(50, 100)}

MinLiftChoices == {DefaultMinLift, Rat(15, 10)}

Metrics == {"confidence", "lift", "support"}

DefaultMetric == "confidence"

(***************************************************************************)
(* Data preprocessing (lines 57-66).                                        *)
(***************************************************************************)
\* Column labels of the unstacked table: the products that occur in the file.
BasketColumns(df) == UNION Range(df)

\* groupby/count/unstack/fillna(0), then (basket > 0).astype(int).
OneHot(df) ==
    [o \in 1..Len(df) |-> [p \in BasketColumns(df) |-> IF p \in df[o] THEN 1 ELSE 0]]

(***************************************************************************)
(* apriori(basket_sets, min_support, use_colnames=True) (line 76).          *)
(***************************************************************************)
\* Mutant of Support: counts the rows in which some column is 1 (any for all).
SupportAny(X, combination) ==
    Rat(Cardinality({o \in 1..Len(X) : \E p \in combination : X[o][p] = 1}), Len(X))

\* Fraction of the rows in which every column of the combination is 1.
Support(X, combination) ==
    Rat(Cardinality({o \in 1..Len(X) : \A p \in combination : X[o][p] = 1}), Len(X))

\* Mutant of IsFrequent: > for >=.
IsFrequentStrict(support, threshold) == RLess(threshold, support)

IsFrequent(support, threshold) == RLeq(threshold, support)

ItemsetRow(X, combination) ==
    [support |-> Support(X, combination), itemsets |-> combination]

\* Level 1: the columns whose support reaches min_support, in column order.
Level1(X, threshold) ==
    SelectSeq(Map(SortBy(DOMAIN X[1], ColRank), LAMBDA p : ItemsetRow(X, {p})),
              LAMBDA r : IsFrequent(r.support, threshold))

\* The combinations of the previous level, as tuples in column order.
LastLevel(fi, k) ==
    Map(SelectSeq(fi, LAMBDA r : Cardinality(r.itemsets) = k),
        LAMBDA r : SortBy(r.itemsets, ColRank))

\* generate_new_combinations: every combination of the previous level, extended
\* by each item of that level that lies after its last column.
NewCombinations(old) ==
    LET items_types_in_previous_step == UNION {Range(c) : c \in Range(old)}
        Extend(c) ==
            LET valid_items ==
                    {p \in items_types_in_previous_step : Col(p) > Col(c[Len(c)])}
            IN  Map(SortBy(valid_items, ColRank), LAMBDA p : c \o <<p>>)
    IN  Flatten(Map(old, Extend))

\* The candidates of the next level that reach min_support.
NextLevel(X, threshold, combin) ==
    SelectSeq(Map(combin, LAMBDA c : ItemsetRow(X, Range(c))),
              LAMBDA r : IsFrequent(r.support, threshold))

\* "while max_itemset": the loop ends when there is no candidate or no candidate
\* reaches min_support; the table lists the levels one after the other.
RECURSIVE AprioriLoop(_, _, _, _)
AprioriLoop(X, threshold, fi, max_itemset) ==
    LET combin == NewCombinations(LastLevel(fi, max_itemset))
        kept == NextLevel(X, threshold, combin)
    IN  IF kept = <<>> THEN fi
        ELSE AprioriLoop(X, threshold, fi \o kept, max_itemset + 1)

AprioriOf(X, threshold) == AprioriLoop(X, threshold, Level1(X, threshold), 1)

(***************************************************************************)
(* association_rules(frequent_itemsets, metric="confidence",                *)
(*                   min_threshold=min_confidence) (line 79).               *)
(***************************************************************************)
\* frequent_items_dict[itemset]
SupportOf(fi, itemset) ==
    LET i == CHOOSE j \in 1..Len(fi) : fi[j].itemsets = itemset
    IN  fi[i].support

Confidence(sAC, sA) == RDiv(sAC, sA)

Lift(sAC, sA, sC) == RDiv(Confidence(sAC, sA), sC)

\* Mutant of Consequent: the whole itemset for the difference.
ConsequentWhole(itemset, antecedent) == itemset

Consequent(itemset, antecedent) == itemset \ antecedent

RuleRow(fi, itemset, antecedent) ==
    LET consequent == Consequent(itemset, antecedent)
        sAC == SupportOf(fi, itemset)
        sA  == SupportOf(fi, antecedent)
        sC  == SupportOf(fi, consequent)
    IN  [antecedents |-> antecedent, consequents |-> consequent,
         support |-> sAC, confidence |-> Confidence(sAC, sA),
         lift |-> Lift(sAC, sA, sC)]

\* Mutant of PassesThreshold: > for >=.
PassesThresholdStrict(score, min_threshold) == RLess(min_threshold, score)

PassesThreshold(score, min_threshold) == RLeq(min_threshold, score)

\* The antecedents of one itemset: combinations of len-1 items, then len-2, ...,
\* then 1, each taken over the itemset in its iteration order.
RECURSIVE AntecedentsOf(_, _)
AntecedentsOf(k, idx) ==
    IF idx = 0 THEN <<>>
    ELSE Map(Combinations(k, idx), Range) \o AntecedentsOf(k, idx - 1)

RulesOfItemset(fi, itemset, min_threshold, order) ==
    LET k == SortBy(itemset, order)
    IN  SelectSeq(Map(AntecedentsOf(k, Len(k) - 1),
                      LAMBDA a : RuleRow(fi, itemset, a)),
                  LAMBDA r : PassesThreshold(r.confidence, min_threshold))

AssociationRulesOf(fi, min_threshold, order) ==
    Flatten(Map(fi, LAMBDA r : RulesOfItemset(fi, r.itemsets, min_threshold, order)))

\* rules[rules['lift'] >= min_lift] (line 82)
LiftFilter(rs, threshold) == SelectSeq(rs, LAMBDA r : RLeq(threshold, r.lift))

(***************************************************************************)
(* Graph parameters (lines 103-112).                                        *)
(***************************************************************************)
MetricValues(rs, metric) == {rs[i][metric] : i \in 1..Len(rs)}

\* rules[metric_choice].min() and .max()
MinOf(values) == CHOOSE v \in values : \A w \in values : RLeq(v, w)

MaxOf(values) == CHOOSE v \in values : \A w \in values : RLeq(w, v)

\* First position of the slider (min_value + n * step) that is not below v.
SliderStep == Rat(1, 100)

SliderPosition(lo, v) ==
    RAdd(lo, Rat(RCeil(RDiv(RSub(v, lo), SliderStep)), SliderStep[2]))

\* Positions of the slider between min_value and max_value, one for each set
\* of rows a position can select; the default, min_value, is the first.
SliderPositions(min_value, max_value, values) ==
    {x \in {SliderPosition(min_value, v) : v \in values} : RLeq(x, max_value)}

(***************************************************************************)
(* draw_network(rules, selected_metric, min_val) (lines 12-45).             *)
(***************************************************************************)
\* nx.DiGraph()
EmptyGraph == [nodes |-> {}, edges |-> [e \in {} |-> Zero]]

\* Mutant of FilterRules: > for >=.
FilterRulesStrict(rs, selected_metric, threshold) ==
    SelectSeq(rs, LAMBDA r : RLess(threshold, r[selected_metric]))

\* rules[rules[selected_metric] >= min_val]
FilterRules(rs, selected_metric, threshold) ==
    SelectSeq(rs, LAMBDA r : RLeq(threshold, r[selected_metric]))

\* f"Lift: {lift:.2f}": the lift in hundredths, rounded half to even.
Title(lift) ==
    LET q == (lift[1] * 100) \div lift[2]
        rem == (lift[1] * 100) % lift[2]
    IN  IF 2 * rem > lift[2] THEN q + 1
        ELSE IF 2 * rem = lift[2] THEN q + (q % 2)
        ELSE q

\* Mutant of AddEdge: an edge that is there gets the new weight and keeps its title.
AddEdgeKeepTitle(g, u, v, weight, title) ==
    [nodes |-> g.nodes \cup {u, v},
     edges |-> [e \in (DOMAIN g.edges) \cup {<<u, v>>} |->
                   IF e # <<u, v>> THEN g.edges[e]
                   ELSE IF e \in DOMAIN g.edges
                        THEN [weight |-> weight, title |-> g.edges[e].title]
                        ELSE [weight |-> weight, title |-> title]]]

\* G.add_edge(u, v, weight=..., title=...): adds the nodes, adds the edge or
\* updates the attributes of the edge that is there.
AddEdge(g, u, v, weight, title) ==
    [nodes |-> g.nodes \cup {u, v},
     edges |-> [e \in (DOMAIN g.edges) \cup {<<u, v>>} |->
                   IF e = <<u, v>> THEN [weight |-> weight, title |-> title]
                   ELSE g.edges[e]]]

\* for ant in antecedents: for cons in consequents
RowPairs(r, order) ==
    Flatten(Map(SortBy(r.antecedents, order),
                LAMBDA ant : Map(SortBy(r.consequents, order),
                                 LAMBDA cons : <<ant, cons>>)))

RECURSIVE AddEdges(_, _, _, _)
AddEdges(g, pairs, weight, title) ==
    IF pairs = <<>> THEN g
    ELSE AddEdges(AddEdge(g, Head(pairs)[1], Head(pairs)[2], weight, title),
                  Tail(pairs), weight, title)

AddRowEdges(g, r, selected_metric, order) ==
    AddEdges(g, RowPairs(r, order), r[selected_metric], Title(r.lift))

\* for _, row in filtered_rules.iterrows()
RECURSIVE AddRows(_, _, _, _)
AddRows(g, rs, selected_metric, order) ==
    IF rs = <<>> THEN g
    ELSE AddRows(AddRowEdges(g, Head(rs), selected_metric, order), Tail(rs),
                 selected_metric, order)

\* The graph draw_network hands to PyVis.
DrawNetworkOf(rs, selected_metric, threshold, order) ==
    AddRows(EmptyGraph, FilterRules(rs, selected_metric, threshold), selected_metric,
            order)

(***************************************************************************)
(* The script.                                                              *)
(***************************************************************************)
Init ==
    /\ pc = "awaiting"
    /\ hash_order \in HashOrders
    /\ uploaded_file = NoFile
    /\ basket_sets = <<>>
    /\ min_support = DefaultMinSupport
    /\ min_confidence = DefaultMinConfidence
    /\ min_lift = DefaultMinLift
    /\ metric_choice = DefaultMetric
    /\ frequent_itemsets = <<>>
    /\ rules = <<>>
    /\ min_val = Zero
    /\ G = EmptyGraph

\* A run starts with nothing left of the run before it, reads the file and
\* encodes it, and reads the three sliders of the algorithm (lines 56-72).
FreshRun(df) ==
    /\ pc' = "apriori"
    /\ basket_sets' = OneHot(df)
    /\ frequent_itemsets' = <<>>
    /\ rules' = <<>>
    /\ min_val' = Zero
    /\ G' = EmptyGraph

\* A run has ended when it showed the warning, drew the graph or raised.
RunEnded == pc \in {"warned", "done", "error"}

\* st.file_uploader (line 54)
Upload(f) ==
    /\ pc = "awaiting"
    /\ uploaded_file' = f
    /\ FreshRun(f)
    /\ UNCHANGED <<hash_order, min_support, min_confidence, min_lift, metric_choice>>

\* line 76
Apriori ==
    /\ pc = "apriori"
    /\ frequent_itemsets' = AprioriOf(basket_sets, min_support)
    /\ pc' = "association_rules"
    /\ UNCHANGED <<hash_order, uploaded_file, basket_sets, min_support, min_confidence,
                   min_lift, metric_choice, rules, min_val, G>>

\* line 79. association_rules raises ValueError when the table of frequent itemsets
\* is empty; the run ends there, and the widgets it did not draw lose their state.
AssociationRules ==
    /\ pc = "association_rules"
    /\ IF frequent_itemsets = <<>>
       THEN /\ pc' = "error"
            /\ metric_choice' = DefaultMetric
                    /\ UNCHANGED rules
       ELSE /\ rules' = AssociationRulesOf(frequent_itemsets, min_confidence, hash_order)
            /\ pc' = "lift_filter"
            /\ UNCHANGED metric_choice
    /\ UNCHANGED <<hash_order, uploaded_file, basket_sets, min_support, min_confidence,
                   min_lift, frequent_itemsets, min_val, G>>

\* line 82
FilterByLift ==
    /\ pc = "lift_filter"
    /\ rules' = LiftFilter(rules, min_lift)
    /\ pc' = "display"
    /\ UNCHANGED <<hash_order, uploaded_file, basket_sets, min_support, min_confidence,
                   min_lift, metric_choice, frequent_itemsets, min_val, G>>

\* lines 86-87: rules.empty, the warning; the graph widgets are not drawn.
WarnNoRules ==
    /\ pc = "display"
    /\ rules = <<>>
    /\ pc' = "warned"
    /\ metric_choice' = DefaultMetric
    /\ UNCHANGED <<hash_order, uploaded_file, basket_sets, min_support, min_confidence,
                   min_lift, frequent_itemsets, rules, min_val, G>>

\* lines 88-112: the table, then the selectbox and the slider of the graph. The
\* slider returns the position the user left it at: its default, min_val_default,
\* or any other position of its range.
GraphParameters ==
    /\ pc = "display"
    /\ rules # <<>>
    /\ LET min_val_default == MinOf(MetricValues(rules, metric_choice))
           max_val_default == MaxOf(MetricValues(rules, metric_choice))
       IN  \E value \in SliderPositions(min_val_default, max_val_default,
                                         MetricValues(rules, metric_choice)) :
               min_val' = value
    /\ pc' = "draw_network"
    /\ UNCHANGED <<hash_order, uploaded_file, basket_sets, min_support, min_confidence,
                   min_lift, metric_choice, frequent_itemsets, rules, G>>

\* line 114: draw_network(rules, selected_metric=metric_choice, min_val=min_val)
DrawNetwork ==
    /\ pc = "draw_network"
    /\ G' = DrawNetworkOf(rules, metric_choice, min_val, hash_order)
    /\ pc' = "done"
    /\ UNCHANGED <<hash_order, uploaded_file, basket_sets, min_support, min_confidence,
                   min_lift, metric_choice, frequent_itemsets, rules, min_val>>

(***************************************************************************)
(* The user moves a widget: Streamlit reruns the script with the new value. *)
(***************************************************************************)
\* Mutant of ChangeMinSupport: the slider moves and the results of the run
\* before it stay.
ChangeMinSupportStale(v) ==
    /\ RunEnded
    /\ v # min_support
    /\ min_support' = v
    /\ UNCHANGED <<pc, hash_order, uploaded_file, basket_sets, min_confidence, min_lift,
                   metric_choice, frequent_itemsets, rules, min_val, G>>

ChangeMinSupport(v) ==
    /\ RunEnded
    /\ v # min_support
    /\ min_support' = v
    /\ FreshRun(uploaded_file)
    /\ UNCHANGED <<hash_order, uploaded_file, min_confidence, min_lift, metric_choice>>

ChangeMinConfidence(v) ==
    /\ RunEnded
    /\ v # min_confidence
    /\ min_confidence' = v
    /\ FreshRun(uploaded_file)
    /\ UNCHANGED <<hash_order, uploaded_file, min_support, min_lift, metric_choice>>

ChangeMinLift(v) ==
    /\ RunEnded
    /\ v # min_lift
    /\ min_lift' = v
    /\ FreshRun(uploaded_file)
    /\ UNCHANGED <<hash_order, uploaded_file, min_support, min_confidence,
                   metric_choice>>

\* The selectbox and the slider of the graph exist once a run has drawn them; a
\* run that does not draw them drops their state.
ChangeMetric(m) ==
    /\ pc = "done"
    /\ m # metric_choice
    /\ metric_choice' = m
    /\ FreshRun(uploaded_file)
    /\ UNCHANGED <<hash_order, uploaded_file, min_support, min_confidence, min_lift>>

ChangeMinVal ==
    /\ pc = "done"
    /\ FreshRun(uploaded_file)
    /\ UNCHANGED <<hash_order, uploaded_file, min_support, min_confidence, min_lift,
                   metric_choice>>

\* The steps of a run and the changes of the widgets.
Run ==
    \/ Apriori
    \/ AssociationRules
    \/ FilterByLift
    \/ WarnNoRules
    \/ GraphParameters
    \/ DrawNetwork
    \/ \E v \in MinSupportChoices : ChangeMinSupport(v)
    \/ \E v \in MinConfidenceChoices : ChangeMinConfidence(v)
    \/ \E v \in MinLiftChoices : ChangeMinLift(v)
    \/ \E m \in Metrics : ChangeMetric(m)
    \/ ChangeMinVal

Next ==
    \/ \E f \in Files : Upload(f)
    \/ Run

Spec == Init /\ [][Next]_vars

(***************************************************************************)
(* The example of the specification: T1 = {milk, bread},                    *)
(* T2 = {milk, bread, eggs}, T3 = {milk}, T4 = {bread, eggs}.               *)
(***************************************************************************)
ExampleFile ==
    <<{"milk", "bread"}, {"milk", "bread", "eggs"}, {"milk"}, {"bread", "eggs"}>>

NextExample ==
    \/ Upload(ExampleFile)
    \/ Run

ExampleSpec == Init /\ [][NextExample]_vars

(***************************************************************************)
(* What the claims are stated with: counts taken from the uploaded file     *)
(* itself, and the stages of a run.                                         *)
(***************************************************************************)
Itemsets == (SUBSET Items) \ {{}}

\* Number of transactions that contain every item of I.
Count(I) == Cardinality({o \in 1..Len(uploaded_file) : I \subseteq uploaded_file[o]})

N == Len(uploaded_file)

\* count(I)/N >= threshold
ReachesSupport(I, threshold) == threshold[1] * N <= Count(I) * threshold[2]

Mined == {frequent_itemsets[i].itemsets : i \in 1..Len(frequent_itemsets)}

AfterLiftFilter == pc \in {"display", "draw_network", "warned", "done"}

\* Every split of a frequent itemset into an antecedent and a consequent.
Candidates ==
    UNION {{<<A, U \ A>> : A \in (SUBSET U) \ {{}, U}} :
           U \in {I \in Itemsets : ReachesSupport(I, min_support)}}

ConfidenceOf(c) == Rat(Count(c[1] \cup c[2]), Count(c[1]))

LiftOf(c) == Rat(Count(c[1] \cup c[2]) * N, Count(c[1]) * Count(c[2]))

\* The candidates with confidence >= min_confidence and lift >= min_lift.
Kept ==
    {c \in Candidates : /\ RLeq(min_confidence, ConfidenceOf(c))
                        /\ RLeq(min_lift, LiftOf(c))}

RulePairs(rs) == {<<rs[i].antecedents, rs[i].consequents>> : i \in 1..Len(rs)}

\* The rows of the rule table that pass min_val and yield the edge e.
RowsOf(e) ==
    {i \in 1..Len(rules) :
        /\ RLeq(min_val, rules[i][metric_choice])
        /\ e[1] \in rules[i].antecedents
        /\ e[2] \in rules[i].consequents}

EdgePairs == {e \in Items \X Items : RowsOf(e) # {}}

(***************************************************************************)
(* Claims.                                                                  *)
(***************************************************************************)

\* C1: in the finished graph every edge X->Y carries the maximum of the
\* selected_metric values of the rules that pass min_val and yield (X, Y).
C1_EdgeWeightIsMaximum ==
    pc = "done" =>
        \A e \in DOMAIN G.edges :
            G.edges[e].weight = MaxOf({rules[i][metric_choice] : i \in RowsOf(e)})

\* C2: the edges of the finished graph are exactly the pairs (a, c) with a in the
\* antecedents and c in the consequents of some rule whose selected_metric is at
\* least min_val, and the nodes are exactly the endpoints of the edges.
C2_EdgeSetExact ==
    pc = "done" =>
        LET pairs == EdgePairs
        IN  /\ DOMAIN G.edges = pairs
            /\ G.nodes = {e[1] : e \in pairs} \cup {e[2] : e \in pairs}

C2_Witness ==
    /\ pc = "done"
    /\ \E i \in 1..Len(rules) : RLess(rules[i][metric_choice], min_val)
    /\ \E i \in 1..Len(rules) :
          /\ RLeq(min_val, rules[i][metric_choice])
          /\ Cardinality(rules[i].antecedents) + Cardinality(rules[i].consequents) > 2

\* C3: the generator emits exactly the candidate rules with
\* confidence >= min_confidence, whatever their lift; after the caller's filter the
\* table holds exactly the candidates with confidence >= min_confidence and
\* lift >= min_lift, each once.
C3_TwoStageThresholds ==
    LET pairs == RulePairs(rules)
    IN  /\ pc = "lift_filter" =>
              /\ pairs = {c \in Candidates : RLeq(min_confidence, ConfidenceOf(c))}
              /\ Len(rules) = Cardinality(pairs)
        /\ AfterLiftFilter =>
              /\ pairs = Kept
              /\ Len(rules) = Cardinality(pairs)
              /\ \A i \in 1..Len(rules) : /\ RLeq(min_confidence, rules[i].confidence)
                                          /\ RLeq(min_lift, rules[i].lift)

C3_Witness ==
    /\ pc = "display"
    /\ \E c \in Candidates : RLess(ConfidenceOf(c), min_confidence)
    /\ \E c \in Candidates : /\ RLeq(min_confidence, ConfidenceOf(c))
                             /\ RLess(LiftOf(c), min_lift)
    /\ \E i \in 1..Len(rules) : rules[i].confidence = min_confidence
    /\ \E i \in 1..Len(rules) : rules[i].lift = min_lift

\* C4: the mined table lists exactly the non-empty itemsets I with
\* count(I)/N >= min_support, each once, with support = count(I)/N, so that
\* 0 <= support <= 1 and support >= min_support.
C4_FrequentItemsetsExact ==
    pc = "association_rules" =>
        /\ Mined = {I \in Itemsets : ReachesSupport(I, min_support)}
        /\ Len(frequent_itemsets) = Cardinality(Mined)
        /\ N > 0
        /\ \A i \in 1..Len(frequent_itemsets) :
              LET r == frequent_itemsets[i]
              IN  /\ r.support = Rat(Count(r.itemsets), N)
                  /\ RLeq(Zero, r.support)
                  /\ RLeq(r.support, <<1, 1>>)
                  /\ RLeq(min_support, r.support)

C4_Witness ==
    /\ pc = "association_rules"
    /\ \E i \in 1..Len(frequent_itemsets) :
          /\ frequent_itemsets[i].support = min_support
          /\ Cardinality(frequent_itemsets[i].itemsets) >= 2
    /\ \E i \in 1..Len(frequent_itemsets) :
          RLess(min_support, frequent_itemsets[i].support)

\* C5: support never grows with the itemset, and the mined table is downward
\* closed: every non-empty subset of a mined itemset is mined, with a support that
\* is not smaller.
C5_Antimonotone ==
    pc = "association_rules" =>
        /\ \A B \in SUBSET (DOMAIN basket_sets[1]) : \A A \in SUBSET B :
              RLeq(Support(basket_sets, B), Support(basket_sets, A))
        /\ \A B \in Mined : \A A \in (SUBSET B) \ {{}} :
              /\ A \in Mined
              /\ RLeq(SupportOf(frequent_itemsets, B), SupportOf(frequent_itemsets, A))

C5_Witness ==
    /\ pc = "association_rules"
    /\ \E B \in Mined : \E A \in (SUBSET B) \ {{}} :
          RLess(SupportOf(frequent_itemsets, B), SupportOf(frequent_itemsets, A))
    /\ \E A \in Itemsets : /\ Cardinality(A) = 1
                           /\ Count(A) > 0
                           /\ A \notin Mined
                           /\ \A B \in Mined : ~(A \subseteq B)

\* C6: every generated rule has a non-empty antecedent and a non-empty consequent
\* that are disjoint, their union is a mined itemset of at least two items, its
\* support is the support of the union, its confidence is
\* support(union)/support(antecedent) and its lift is confidence/support(consequent).
C6_RulePartition ==
    pc \in {"lift_filter", "display"} =>
        \A i \in 1..Len(rules) :
            LET r == rules[i]
                U == r.antecedents \cup r.consequents
            IN  /\ r.antecedents # {}
                /\ r.consequents # {}
                /\ r.antecedents \cap r.consequents = {}
                /\ \E j \in 1..Len(frequent_itemsets) : frequent_itemsets[j].itemsets = U
                /\ Cardinality(U) >= 2
                /\ r.support = Rat(Count(U), N)
                /\ r.confidence = RDiv(Rat(Count(U), N), Rat(Count(r.antecedents), N))
                /\ r.lift = RDiv(r.confidence, Rat(Count(r.consequents), N))

C6_Witness ==
    /\ pc = "lift_filter"
    /\ \E i \in 1..Len(rules) : Cardinality(rules[i].antecedents) = 2
    /\ \E i \in 1..Len(rules) : Cardinality(rules[i].consequents) = 2
    /\ \E i \in 1..Len(rules) : rules[i].lift # rules[i].confidence

\* C7: a run whose thresholds leave no frequent itemset or no rule ends normally
\* with an empty rule table and never in an error, and the graph stage is never
\* entered with an empty rule table.
C7_EmptyResultsAreNotErrors ==
    /\ pc # "error"
    /\ (RunEnded /\ Kept = {}) => (pc = "warned" /\ rules = <<>>)
    /\ pc \in {"draw_network", "done"} => rules # <<>>

\* C8 as stated: on the example with min_support = 0.5 the frequent 1-itemsets are
\* {milk} and {bread}, both with support 3/4, and the only frequent 2-itemset is
\* {milk, bread} with support 2/4; eggs is not frequent.
C8_ExampleAsStated ==
    (pc = "association_rules" /\ min_support = Rat(1, 2)) =>
        Range(frequent_itemsets) =
            {[support |-> Rat(3, 4), itemsets |-> {"milk"}],
             [support |-> Rat(3, 4), itemsets |-> {"bread"}],
             [support |-> Rat(2, 4), itemsets |-> {"milk", "bread"}]}

\* C8, amended: on the example with min_support = 0.5 the frequent 1-itemsets are
\* {milk} and {bread} with support 3/4 and {eggs} with support 2/4, and the
\* frequent 2-itemsets are {milk, bread} and {bread, eggs}, both with support 2/4.
C8_ExampleInclusive ==
    (pc = "association_rules" /\ min_support = Rat(1, 2)) =>
        /\ Range(frequent_itemsets) =
              {[support |-> Rat(3, 4), itemsets |-> {"milk"}],
               [support |-> Rat(3, 4), itemsets |-> {"bread"}],
               [support |-> Rat(2, 4), itemsets |-> {"eggs"}],
               [support |-> Rat(2, 4), itemsets |-> {"milk", "bread"}],
               [support |-> Rat(2, 4), itemsets |-> {"bread", "eggs"}]}
        /\ Len(frequent_itemsets) = 5

C8_Witness ==
    /\ pc = "association_rules"
    /\ min_support = Rat(1, 2)
    /\ uploaded_file = ExampleFile
    /\ frequent_itemsets # <<>>

\* C9: when a run has ended, whatever the changes of the widgets before it, the
\* outcome, the itemsets, the rules and the graph are those of one run from
\* scratch on the file with the current values of the widgets.
C9_FullRecomputation ==
    RunEnded =>
        LET fresh_itemsets == AprioriOf(OneHot(uploaded_file), min_support)
            fresh_rules ==
                IF fresh_itemsets = <<>> THEN <<>>
                ELSE LiftFilter(AssociationRulesOf(fresh_itemsets, min_confidence,
                                                   hash_order),
                                min_lift)
            fresh_outcome ==
                IF fresh_itemsets = <<>> THEN "error"
                ELSE IF fresh_rules = <<>> THEN "warned"
                ELSE "done"
        IN  /\ pc = fresh_outcome
            /\ frequent_itemsets = fresh_itemsets
            /\ rules = fresh_rules
            /\ G = IF pc = "done"
                   THEN DrawNetworkOf(fresh_rules, metric_choice, min_val, hash_order)
                   ELSE EmptyGraph
            /\ pc = "done" =>
                  /\ RLeq(MinOf(MetricValues(fresh_rules, metric_choice)), min_val)
                  /\ RLeq(min_val, MaxOf(MetricValues(fresh_rules, metric_choice)))

C9_Witness ==
    /\ pc = "done"
    /\ min_support # DefaultMinSupport
    /\ min_confidence # DefaultMinConfidence
    /\ metric_choice # DefaultMetric
    /\ min_val # MinOf(MetricValues(rules, metric_choice))
    /\ DOMAIN G.edges # {}

\* C10: every edge of the graph carries the weight and the lift annotation of one
\* and the same rule, a rule that passes min_val and yields the edge.
C10_EdgeAttributesFromOneRule ==
    pc = "done" =>
        \A e \in DOMAIN G.edges :
            \E i \in RowsOf(e) :
                /\ G.edges[e].weight = rules[i][metric_choice]
                /\ G.edges[e].title = Title(rules[i].lift)

C10_Witness ==
    /\ pc = "done"
    /\ \E e \in DOMAIN G.edges : \E i, j \in RowsOf(e) :
          /\ rules[i][metric_choice] # rules[j][metric_choice]
          /\ Title(rules[i].lift) # Title(rules[j].lift)

====
